---------------------------- MODULE Spec2Model ----------------------------
(***************************************************************************)
(* A model of the Vulcain helper library (src/vulcain.go): the protocol    *)
(* gate (IsValidRequest, IsValidResponse), the directive extraction        *)
(* (extractFromRequest), the relation callback of Apply, push with its     *)
(* preload-hint fallback, and Finish.                                      *)
(*                                                                         *)
(* The pusher registry (pushers, waitPusher), the selector tree and the    *)
(* JSON traversal are code of the repository that vulcain.go only calls;   *)
(* they are modelled from the design document and marked as such.          *)
(***************************************************************************)
EXTENDS Integers, Sequences, FiniteSets, TLC

VARIABLES
    opt,          \* the options New() was given (opt, lines 75-81)
    pusherMap,    \* pushers.pusherMap: the registered handle ids
    pushedURLs,   \* the connection's push ledger
    pending,      \* per handle: the pushes initiated under it, not yet completed
    initiated,    \* per URL: how often the transport push was invoked
    pc,           \* per request: where its exchange stands
    req,          \* per request: the *http.Request
    ctx,          \* per request: the *waitPusher of its context (NoPusher: nil)
    app,          \* per request: the locals of its running Apply
    rh,           \* per request: responseHeaders
    ret,          \* per request: what Apply returned
    last,         \* per request: the latest invocation of Apply's callback
    fin,          \* per request: the latest call of Finish
    gin,          \* input of the pure-function specifications
    gout          \* output of the pure-function specifications

vars == <<opt, pusherMap, pushedURLs, pending, initiated, pc, req, ctx, app,
          rh, ret, last, fin, gin, gout>>

progVars == <<opt, pusherMap, pushedURLs, pending, initiated, pc, req, ctx,
              app, rh, ret, last, fin>>

(***************************************************************************)
(* Bounds.                                                                 *)
(***************************************************************************)
NReq == 2       \* the requests of a connection
ConnRels == 1   \* the relations of a document of a busy connection
MaxRels == 2    \* the relations of a document of a single exchange
MaxVals == 2    \* the values of one header or query parameter
MaxFinish == 2  \* the calls of Finish for one request

Requests == 1..NReq

\* A nil *waitPusher; handle ids are request numbers, which start at 1.
NoPusher == 0

(***************************************************************************)
(* Text.  A header value is a sequence of tokens: a token is a maximal run *)
(* of word characters ([0-9A-Za-z_]) or one other character, so that a     *)
(* regular expression's \b falls exactly between two tokens.               *)
(***************************************************************************)
\* strings.ToLower on a token: what (?i) compares.
ToLower(t) ==
    CASE t = "JSON" -> "json"
      [] t = "No" -> "no"
      [] OTHER -> t

\* The token ends with the characters "selector".
HasSuffixSelector(t) == t \in {"selector", "xselector"}

\* The token starts with the characters "pointer".
HasPrefixPointer(t) == t \in {"pointer", "pointers"}

\* jsonRe = (?i)\bjson\b
jsonRe(s) == \E i \in 1..Len(s) : ToLower(s[i]) = "json"

\* notransformRe = \bno-transform\b
notransformRe(s) ==
    \E i \in 1..Len(s) :
        /\ i + 2 <= Len(s)
        /\ s[i] = "no" /\ s[i + 1] = "-" /\ s[i + 2] = "transform"

\* The tokens of s from position i on spell json-pointer (no \b after it).
jsonPointerAt(s, i) ==
    /\ i + 2 <= Len(s)
    /\ s[i] = "json" /\ s[i + 1] = "-" /\ HasPrefixPointer(s[i + 2])

\* preferRe = \s*selector="?json-pointer"?  (unanchored, no \b before it)
preferRe(s) ==
    \E i \in 1..Len(s) :
        /\ i + 1 <= Len(s)
        /\ HasSuffixSelector(s[i]) /\ s[i + 1] = "="
        /\ \/ jsonPointerAt(s, i + 2)
           \/ i + 2 <= Len(s) /\ s[i + 2] = "\"" /\ jsonPointerAt(s, i + 3)

\* http.Header.Get: the first value of the key, "" (no token) when absent.
HeaderGet(vals) == IF Len(vals) > 0 THEN vals[1] ELSE <<>>


(***************************************************************************)
(* Protocol gate (lines 167-202).  A header map entry is the sequence of   *)
(* its values, a missing key is absent: [ok |-> FALSE].                    *)
(***************************************************************************)
Absent == [ok |-> FALSE, vals |-> <<>>]
Present(vals) == [ok |-> TRUE, vals |-> vals]

\* IsValidRequest: at least one directive, as a header or a query parameter.
IsValidRequest(rq) ==
    \/ Len(rq.PreloadH) > 0
    \/ Len(rq.FieldsH) > 0
    \/ Len(rq.preloadQ) > 0
    \/ Len(rq.fieldsQ) > 0

\* IsValidResponse: a success status, a JSON content type, no no-transform,
\* and no Prefer header or one of its values selecting json-pointer.
IsValidResponse(prefer, responseStatus, contentType, cacheControl) ==
    IF \/ responseStatus < 200
       \/ responseStatus > 300
       \/ ~jsonRe(HeaderGet(contentType.vals))
       \/ notransformRe(HeaderGet(cacheControl.vals))
    THEN FALSE
    ELSE IF ~prefer.ok
    THEN TRUE
    ELSE \E i \in 1..Len(prefer.vals) : preferRe(prefer.vals[i])

(***************************************************************************)
(* Directive extraction (lines 121-150).  A raw directive value is a       *)
(* sequence of list members; Malformed stands for text that is no          *)
(* structured-field list member.                                           *)
(***************************************************************************)
Malformed == "("

RECURSIVE Join(_)
\* strings.Join(v, ","): the members of all values, in order.
Join(vals) == IF vals = <<>> THEN <<>> ELSE Head(vals) \o Join(Tail(vals))

\* httpsfv.UnmarshalList: the values joined and parsed as one list; an
\* error, and the empty list, when a member does not parse.
UnmarshalList(vals) ==
    LET all == Join(vals)
    IN  IF \E i \in 1..Len(all) : all[i] = Malformed
        THEN [list |-> <<>>, err |-> TRUE]
        ELSE [list |-> all, err |-> FALSE]

\* One directive with the query parameter tried before the header.
extractDirective_QueryFirst(header, query) ==
    LET q  == UnmarshalList(query)
        fromQuery == Len(query) > 0 /\ ~q.err
        l1 == IF Len(query) > 0 THEN q.list ELSE <<>>
        h  == UnmarshalList(header)
        tryHeader  == ~fromQuery /\ Len(header) > 0
        fromHeader == tryHeader /\ ~h.err
    IN  [list   |-> IF tryHeader THEN h.list ELSE l1,
         header |-> fromHeader,
         query  |-> fromQuery]

\* One directive of extractFromRequest: the header first, the query
\* parameter when no header was accepted.
extractDirective(header, query) ==
    LET h  == UnmarshalList(header)
        fromHeader == Len(header) > 0 /\ ~h.err
        l1 == IF Len(header) > 0 THEN h.list ELSE <<>>
        q  == UnmarshalList(query)
        tryQuery  == ~fromHeader /\ Len(query) > 0
        fromQuery == tryQuery /\ ~q.err
    IN  [list   |-> IF tryQuery THEN q.list ELSE l1,
         header |-> fromHeader,
         query  |-> fromQuery]

extractFromRequest(rq) ==
    LET f == extractDirective(rq.FieldsH, rq.fieldsQ)
        p == extractDirective(rq.PreloadH, rq.preloadQ)
    IN  [fields |-> f.list, preload |-> p.list,
         fieldsHeader |-> f.header, fieldsQuery |-> f.query,
         preloadHeader |-> p.header, preloadQuery |-> p.query]


(***************************************************************************)
(* URLs (net/url).  A string is the sequence of its parts, so that parsing *)
(* and formatting are computed and are not each other's inverse by fiat:   *)
(* the scheme is lower-cased by url.Parse.                                 *)
(***************************************************************************)
RelativeA == <<"/a">>
AbsoluteC == <<"HTTP", "://", "h", "/c">>
Unparseable == <<":", "bad">>
RelValues == {RelativeA, AbsoluteC, Unparseable}

NoURL == [scheme |-> "", host |-> "", path |-> "", query |-> ""]

\* url.Parse: [u, err].  A string starting with a colon has no scheme
\* before it and is refused ("missing protocol scheme").
urlParse(s) ==
    IF s[1] = ":"
    THEN [u |-> NoURL, err |-> TRUE]
    ELSE IF Len(s) >= 4 /\ s[2] = "://"
    THEN [u |-> [scheme |-> IF s[1] = "HTTP" THEN "http" ELSE s[1],
                 host |-> s[3], path |-> s[4], query |-> ""],
          err |-> FALSE]
    ELSE [u |-> [scheme |-> "", host |-> "", path |-> s[1], query |-> ""],
          err |-> FALSE]

\* (*url.URL).String
urlString(u) ==
    (IF u.scheme # "" THEN <<u.scheme, "://", u.host>> ELSE <<>>)
    \o <<u.path>>
    \o (IF u.query # "" THEN <<"?", u.query>> ELSE <<>>)

\* (*url.URL).IsAbs
IsAbs(u) == u.scheme # ""

\* urlRewriter(u, n): the directives nested under node n become query
\* parameters of the relation's URL.
urlRewriter(u, n) == IF n.sub THEN [u EXCEPT !.query = "preload=nested"] ELSE u

(***************************************************************************)
(* Relation resolution (lines 152-159, 351-369).  A route is "nil" or      *)
(* "route"; `found` is what openAPI.getRoute answers, `oaRel` what         *)
(* openAPI.getRelation answers (the empty string: no relation).            *)
(***************************************************************************)
Routes == {"nil", "route"}
OARels == {<<>>, RelativeA}

\* getOpenAPIRoute without the test of routeTested.
getOpenAPIRoute_NoCache(route, routeTested, found) ==
    IF ~opt.openAPI
    THEN [route |-> route, looked |-> FALSE]
    ELSE [route |-> found, looked |-> TRUE]

\* getOpenAPIRoute: [route, looked], looked telling that getRoute was called.
getOpenAPIRoute(route, routeTested, found) ==
    IF routeTested \/ ~opt.openAPI
    THEN [route |-> route, looked |-> FALSE]
    ELSE [route |-> found, looked |-> TRUE]

\* parseRelation returning the URL it got without the error.
parseRelation_NoErr(rel, oaRoute, oaRel) ==
    LET useOA == oaRoute # "nil" /\ oaRel # <<>>
        p == urlParse(IF useOA THEN oaRel ELSE rel)
    IN  [u |-> p.u, useOA |-> useOA, err |-> FALSE]

\* parseRelation: [u, useOA, err]
parseRelation(rel, oaRoute, oaRel) ==
    LET useOA == oaRoute # "nil" /\ oaRel # <<>>
        p == urlParse(IF useOA THEN oaRel ELSE rel)
    IN  [u |-> p.u, useOA |-> useOA, err |-> p.err]

(***************************************************************************)
(* push and its fallback (lines 282-349).                                  *)
(***************************************************************************)
NoHeaders == [Link |-> <<>>, Vary |-> <<>>, ContentLength |-> <<>>]

\* addPreloadHeader: Link: <link>; rel=preload; as=fetch[; nopush]
addPreloadHeader(h, link, nopush) ==
    [h EXCEPT !.Link = Append(@,
        [url |-> IF Len(opt.apiUrl) > 0 THEN opt.apiUrl \o link ELSE link,
         rel |-> "preload", as |-> "fetch", nopush |-> nopush])]

\* push hinting a relation that was already pushed.
push_HintAndTrue(u, newHeaders, pusher, pushErr) ==
    LET url == urlString(u)
    IN  IF opt.maxPushes = 0 \/ IsAbs(u)
        THEN [ret |-> FALSE, invoked |-> FALSE,
              headers |-> addPreloadHeader(newHeaders, url, TRUE)]
        ELSE IF pusher = NoPusher
        THEN [ret |-> FALSE, invoked |-> FALSE,
              headers |-> addPreloadHeader(newHeaders, url, FALSE)]
        ELSE IF pushErr = "already"
        THEN [ret |-> TRUE, invoked |-> TRUE,
              headers |-> addPreloadHeader(newHeaders, url, FALSE)]
        ELSE IF pushErr # "nil"
        THEN [ret |-> FALSE, invoked |-> TRUE,
              headers |-> addPreloadHeader(newHeaders, url, FALSE)]
        ELSE [ret |-> TRUE, invoked |-> TRUE, headers |-> newHeaders]

\* push taking errRelationAlreadyPushed for a failure like any other.
push_AlreadyFails(u, newHeaders, pusher, pushErr) ==
    LET url == urlString(u)
    IN  IF opt.maxPushes = 0 \/ IsAbs(u)
        THEN [ret |-> FALSE, invoked |-> FALSE,
              headers |-> addPreloadHeader(newHeaders, url, TRUE)]
        ELSE IF pusher = NoPusher
        THEN [ret |-> FALSE, invoked |-> FALSE,
              headers |-> addPreloadHeader(newHeaders, url, FALSE)]
        ELSE IF pushErr # "nil"
        THEN [ret |-> FALSE, invoked |-> TRUE,
              headers |-> addPreloadHeader(newHeaders, url, FALSE)]
        ELSE [ret |-> TRUE, invoked |-> TRUE, headers |-> newHeaders]

\* push marking every fallback Link header nopush.
push_NopushAlways(u, newHeaders, pusher, pushErr) ==
    LET url == urlString(u)
    IN  IF opt.maxPushes = 0 \/ IsAbs(u)
        THEN [ret |-> FALSE, invoked |-> FALSE,
              headers |-> addPreloadHeader(newHeaders, url, TRUE)]
        ELSE IF pusher = NoPusher
        THEN [ret |-> FALSE, invoked |-> FALSE,
              headers |-> addPreloadHeader(newHeaders, url, TRUE)]
        ELSE IF pushErr = "already"
        THEN [ret |-> TRUE, invoked |-> TRUE, headers |-> newHeaders]
        ELSE IF pushErr # "nil"
        THEN [ret |-> FALSE, invoked |-> TRUE,
              headers |-> addPreloadHeader(newHeaders, url, TRUE)]
        ELSE [ret |-> TRUE, invoked |-> TRUE, headers |-> newHeaders]

\* push without the test for an absolute URL.
push_NoAbsCheck(u, newHeaders, pusher, pushErr) ==
    LET url == urlString(u)
    IN  IF opt.maxPushes = 0
        THEN [ret |-> FALSE, invoked |-> FALSE,
              headers |-> addPreloadHeader(newHeaders, url, TRUE)]
        ELSE IF pusher = NoPusher
        THEN [ret |-> FALSE, invoked |-> FALSE,
              headers |-> addPreloadHeader(newHeaders, url, FALSE)]
        ELSE IF pushErr = "already"
        THEN [ret |-> TRUE, invoked |-> TRUE, headers |-> newHeaders]
        ELSE IF pushErr # "nil"
        THEN [ret |-> FALSE, invoked |-> TRUE,
              headers |-> addPreloadHeader(newHeaders, url, FALSE)]
        ELSE [ret |-> TRUE, invoked |-> TRUE, headers |-> newHeaders]

\* push: [ret, headers, invoked].  `pushErr` is what pusher.Push answers if
\* it is called ("nil", "already" for errRelationAlreadyPushed, "failed");
\* invoked tells that it was called.
push(u, newHeaders, pusher, pushErr) ==
    LET url == urlString(u)
    IN  IF opt.maxPushes = 0 \/ IsAbs(u)
        THEN [ret |-> FALSE, invoked |-> FALSE,
              headers |-> addPreloadHeader(newHeaders, url, TRUE)]
        ELSE IF pusher = NoPusher
        THEN [ret |-> FALSE, invoked |-> FALSE,
              headers |-> addPreloadHeader(newHeaders, url, FALSE)]
        ELSE IF pushErr = "already"
        THEN [ret |-> TRUE, invoked |-> TRUE, headers |-> newHeaders]
        ELSE IF pushErr # "nil"
        THEN [ret |-> FALSE, invoked |-> TRUE,
              headers |-> addPreloadHeader(newHeaders, url, FALSE)]
        ELSE [ret |-> TRUE, invoked |-> TRUE, headers |-> newHeaders]


(***************************************************************************)
(* The pusher registry: pushers.getPusherForRequest, waitPusher.Push and   *)
(* pushers.finish, which vulcain.go calls at lines 164, 335 and 279.       *)
(***************************************************************************)
\* A request is internal when its correlation identifier named a registered
\* handle, which it then shares; it is the originating one of its own handle.
IsInternal(r) == ctx[r] # NoPusher /\ ctx[r] # r

\* getPusherForRequest: the handle of request r.  `capable` tells that the
\* response writer can push, `id` is the correlation identifier the request
\* carries (NoPusher: none).
getPusherForRequest(r, capable, id) ==
    IF ~capable THEN NoPusher
    ELSE IF id # NoPusher /\ id \in pusherMap THEN id
    ELSE r

\* waitPusher.Push: the ledger is checked and set in one step, then the
\* transport push is initiated; `transportOk` is the transport's answer.
WaitPusherPush(url, transportOk) ==
    IF url \in pushedURLs THEN "already"
    ELSE IF transportOk THEN "nil"
    ELSE "failed"

\* pushers.finish: [block, map, pend].  block: the call has to wait; map and
\* pend: the registry and the in-flight pushes once it has returned.
pushers_finish(r, wait) ==
    LET h == ctx[r]
    IN  IF h = NoPusher
        THEN [block |-> FALSE, map |-> pusherMap, pend |-> pending]
        ELSE IF IsInternal(r)
        THEN [block |-> FALSE, map |-> pusherMap,
              pend |-> [pending EXCEPT ![h] = @ \ {req[r].url}]]
        ELSE [block |-> wait /\ pending[h] # {},
              map |-> pusherMap \ {h}, pend |-> pending]

\* Finish reaching the registry only when it is asked to wait.
Finish_OnlyWhenWaiting(r, wait) ==
    IF wait
    THEN pushers_finish(r, wait)
    ELSE [block |-> FALSE, map |-> pusherMap, pend |-> pending]

\* Finish dropping its wait argument.
Finish_NoWait(r, wait) == pushers_finish(r, FALSE)

\* Finish (lines 275-280)
Finish(r, wait) == pushers_finish(r, wait)

(***************************************************************************)
(* Apply (lines 204-273).                                                  *)
(***************************************************************************)
\* The rewrite decided by the preload directive alone.
rewriteValue_PreloadOnly(preloadQuery, fieldsQuery, useOA, u, n) ==
    IF preloadQuery /\ ~useOA
    THEN [u |-> urlRewriter(u, n), newValue |-> urlString(urlRewriter(u, n))]
    ELSE [u |-> u, newValue |-> <<>>]

\* Lines 235-239: [u, newValue], the value to splice in ("": none).
rewriteValue(preloadQuery, fieldsQuery, useOA, u, n) ==
    IF (preloadQuery \/ fieldsQuery) /\ ~useOA
    THEN [u |-> urlRewriter(u, n), newValue |-> urlString(urlRewriter(u, n))]
    ELSE [u |-> u, newValue |-> <<>>]

\* Line 242 without its negation.
usePreloadLinksAfter_Pushed(usePreloadLinks, pushRet) == pushRet

\* Line 242: usePreloadLinks after a push that answered pushRet.
usePreloadLinksAfter(usePreloadLinks, pushRet) == ~pushRet

\* Vary: Fields added inside the block of line 248.
finalHeaders_FieldsInBlock(h, usePreloadLinks, fieldsHeader, newBody) ==
    LET h1 == IF usePreloadLinks
              THEN [h EXCEPT !.Vary =
                      IF fieldsHeader THEN @ \o <<"Preload", "Fields">>
                      ELSE Append(@, "Preload")]
              ELSE h
    IN  [h1 EXCEPT !.ContentLength = <<Len(newBody)>>]

\* Lines 248-270: the response headers Apply leaves.
finalHeaders(h, usePreloadLinks, fieldsHeader, newBody) ==
    LET h1 == IF usePreloadLinks
              THEN [h EXCEPT !.Vary = Append(@, "Preload")]
              ELSE h
        h2 == [h1 EXCEPT !.ContentLength = <<Len(newBody)>>]
    IN  IF fieldsHeader
        THEN [h2 EXCEPT !.Vary = Append(@, "Fields")]
        ELSE h2

\* Lines 249-262: the Link headers of the 103 response, if one is sent.
earlyHints(h, usePreloadLinks, enableEarlyHints) ==
    IF usePreloadLinks /\ enableEarlyHints THEN <<h.Link>> ELSE <<>>

\* Apply returning its variable err, which the callback assigns too.
ApplyReturn_Err(readFailed, newBody, err) ==
    IF readFailed
    THEN [body |-> <<>>, err |-> TRUE]
    ELSE [body |-> newBody, err |-> err]

\* Lines 210-213 and 272: the body and the error Apply returns; `err` is the
\* variable err of Apply, which the callback assigns too.
ApplyReturn(readFailed, newBody, err) ==
    IF readFailed
    THEN [body |-> <<>>, err |-> TRUE]
    ELSE [body |-> newBody, err |-> FALSE]


(***************************************************************************)
(* The state machine: requests on one connection.                          *)
(*                                                                         *)
(* A document is the sequence of the relations the traversal hands to the  *)
(* callback, drawn one at a time; the new body is, for each of them,       *)
(* whether the value the callback returned was spliced in.  The option     *)
(* enableEarlyHints is read once per Apply (line 249) and nowhere else; it *)
(* is drawn where it is read.                                              *)
(***************************************************************************)
\* The raw values of one directive on one surface: none, a list, or text
\* that is no list.
DirRaw == {<<>>, <<<<"/a">>>>, <<<<Malformed>>>>}

\* The directives a request can carry: the two directives on the two
\* surfaces.
AnyDirectives ==
    [FieldsH : DirRaw, PreloadH : DirRaw, fieldsQ : DirRaw \ {<<<<Malformed>>>>},
     preloadQ : DirRaw \ {<<<<Malformed>>>>}]

\* The directives of the requests of a busy connection: Preload, as a
\* header or as a query parameter, or no directive at all.
PreloadDirectives ==
    {d \in AnyDirectives :
        /\ d.FieldsH = <<>> /\ d.fieldsQ = <<>>
        /\ d.PreloadH # <<<<Malformed>>>>
        /\ d.PreloadH = <<>> \/ d.preloadQ = <<>>}

NoReq == [FieldsH |-> <<>>, PreloadH |-> <<>>, fieldsQ |-> <<>>,
          preloadQ |-> <<>>, id |-> NoPusher, url |-> <<>>]

\* lookups counts the calls of openAPI.getRoute.
NoApp == [n |-> 0, usePreloadLinks |-> FALSE, oaRoute |-> "nil",
          oaRouteTested |-> FALSE, err |-> FALSE, body |-> <<>>,
          lookups |-> 0]

NoRet == [done |-> FALSE, readFailed |-> FALSE, body |-> <<>>, err |-> FALSE,
          earlyHints |-> <<>>]

NoCall == [called |-> FALSE, preload |-> FALSE, useOA |-> FALSE,
           err |-> FALSE, url |-> <<>>, abs |-> FALSE, newValue |-> <<>>,
           ret |-> FALSE, invoked |-> FALSE, pushErr |-> "nil", links |-> 0,
           bad |-> FALSE]

NoFin == [called |-> FALSE, wait |-> FALSE, blocked |-> FALSE, calls |-> 0]

Options == [maxPushes : {-1, 0}, apiUrl : {<<>>, <<"https", "://", "api">>},
            openAPI : BOOLEAN]

\* What New() sets when at most WithMaxPushes is given (lines 94-119).
DefaultOptions == {o \in Options : o.apiUrl = <<>> /\ ~o.openAPI}

\* The pushes in flight that no request has been delivered for yet.
Undelivered ==
    {hu \in Requests \X UNION {pending[h] : h \in Requests} :
        /\ hu[2] \in pending[hu[1]]
        /\ \A r \in Requests :
              pc[r] = "new" \/ req[r].id # hu[1] \/ req[r].url # hu[2]}

\* The nodes the traversal can hand to the callback: a node is selected by
\* the preload list or, if not, by the fields list; sub tells that it has
\* directives nested under it.
Nodes(ex) ==
    {n \in [preload : BOOLEAN, sub : BOOLEAN] :
        /\ n.preload => Len(ex.preload) > 0
        /\ ~n.preload => Len(ex.fields) > 0}

\* A connection no request has arrived on, of a Vulcain New(options) built.
NoRequests(options) ==
    /\ opt \in options
    /\ pusherMap = {}
    /\ pushedURLs = {}
    /\ pending = [h \in Requests |-> {}]
    /\ initiated = <<>>
    /\ pc = [r \in Requests |-> "new"]
    /\ req = [r \in Requests |-> NoReq]
    /\ ctx = [r \in Requests |-> NoPusher]
    /\ app = [r \in Requests |-> NoApp]
    /\ rh = [r \in Requests |-> NoHeaders]
    /\ ret = [r \in Requests |-> NoRet]
    /\ last = [r \in Requests |-> NoCall]
    /\ fin = [r \in Requests |-> NoFin]

Init ==
    /\ NoRequests(DefaultOptions)
    /\ gin = [kind |-> "none"]
    /\ gout = [kind |-> "none"]

InitApply ==
    /\ NoRequests(Options)
    /\ gin = [kind |-> "none"]
    /\ gout = [kind |-> "none"]

\* CreateRequestContext (lines 161-165) for a request of the client.
CreateRequestContext(r, directives) ==
    /\ pc[r] = "new"
    /\ \E d \in directives, capable \in BOOLEAN :
          LET h == getPusherForRequest(r, capable, NoPusher)
          IN  /\ req' = [req EXCEPT ![r] =
                    [FieldsH |-> d.FieldsH, PreloadH |-> d.PreloadH,
                     fieldsQ |-> d.fieldsQ, preloadQ |-> d.preloadQ,
                     id |-> h, url |-> <<>>]]
              /\ ctx' = [ctx EXCEPT ![r] = h]
              /\ pusherMap' = IF h = r THEN pusherMap \cup {r} ELSE pusherMap
    /\ pc' = [pc EXCEPT ![r] = "ctx"]
    /\ UNCHANGED <<opt, pushedURLs, pending, initiated, app, rh, ret, last,
                   fin, gin, gout>>

\* CreateRequestContext for the follow-up request of a push in flight: it
\* carries the correlation identifier of the handle it was pushed under.
CreatePushedRequestContext(r, directives) ==
    /\ pc[r] = "new"
    /\ \E hu \in Undelivered, d \in directives :
          LET h == getPusherForRequest(r, TRUE, hu[1])
          IN  /\ req' = [req EXCEPT ![r] =
                    [FieldsH |-> d.FieldsH, PreloadH |-> d.PreloadH,
                     fieldsQ |-> d.fieldsQ, preloadQ |-> d.preloadQ,
                     id |-> hu[1], url |-> hu[2]]]
              /\ ctx' = [ctx EXCEPT ![r] = h]
              /\ pusherMap' = IF h = r THEN pusherMap \cup {r} ELSE pusherMap
    /\ pc' = [pc EXCEPT ![r] = "ctx"]
    /\ UNCHANGED <<opt, pushedURLs, pending, initiated, app, rh, ret, last,
                   fin, gin, gout>>

\* Apply up to the traversal (lines 207-222): the body is read.
ApplyStart(r) ==
    /\ pc[r] = "ctx"
    /\ IsValidRequest(req[r])
    /\ \E readFailed \in BOOLEAN :
          IF readFailed
          THEN /\ ret' = [ret EXCEPT ![r] =
                     [done |-> TRUE, readFailed |-> TRUE,
                      earlyHints |-> <<>>,
                      body |-> ApplyReturn(TRUE, <<>>, TRUE).body,
                      err |-> ApplyReturn(TRUE, <<>>, TRUE).err]]
               /\ pc' = [pc EXCEPT ![r] = "applied"]
          ELSE /\ ret' = ret
               /\ pc' = [pc EXCEPT ![r] = "apply"]
    /\ UNCHANGED <<opt, pusherMap, pushedURLs, pending, initiated, req, ctx,
                   app, rh, last, fin, gin, gout>>

\* The callback of Apply (lines 223-246) on relation `val` at node n, with
\* the answers of its collaborators: what it leaves in the state.
Callback(r, ex, val, n, found, oaRel, transportOk) ==
    LET a  == app[r]
        rt == getOpenAPIRoute(a.oaRoute, a.oaRouteTested, found)
        pr == parseRelation(val, rt.route, oaRel)
        rw == rewriteValue(ex.preloadQuery, ex.fieldsQuery, pr.useOA, pr.u, n)
        url == urlString(rw.u)
        pushErr == WaitPusherPush(url, transportOk)
        res == push(rw.u, rh[r], ctx[r], pushErr)
        pushing == ~pr.err /\ n.preload
        calling == pushing /\ res.invoked
        a1 == [a EXCEPT !.n = @ + 1, !.oaRoute = rt.route,
                        !.oaRouteTested = TRUE, !.err = pr.err,
                        !.lookups = IF rt.looked THEN @ + 1 ELSE @]
    IN  /\ app' = [app EXCEPT ![r] =
              IF pr.err
              THEN [a1 EXCEPT !.body = Append(@, FALSE)]
              ELSE [a1 EXCEPT
                      !.body = Append(@, rw.newValue # <<>>),
                      !.usePreloadLinks =
                          IF n.preload
                          THEN usePreloadLinksAfter(@, res.ret)
                          ELSE @]]
        /\ rh' = [rh EXCEPT ![r] = IF pushing THEN res.headers ELSE @]
        /\ pushedURLs' = IF calling THEN pushedURLs \cup {url}
                         ELSE pushedURLs
        /\ initiated' =
              IF calling /\ pushErr # "already"
              THEN IF url \in DOMAIN initiated
                   THEN [initiated EXCEPT ![url] = @ + 1]
                   ELSE initiated @@ (url :> 1)
              ELSE initiated
        /\ pending' = IF calling /\ pushErr = "nil"
                      THEN [pending EXCEPT ![ctx[r]] = @ \cup {url}]
                      ELSE pending
        /\ last' = [last EXCEPT ![r] =
              [called |-> TRUE, preload |-> n.preload,
               useOA |-> pr.useOA, err |-> pr.err,
               url |-> IF pr.err THEN <<>> ELSE url,
               abs |-> ~pr.err /\ IsAbs(rw.u),
               newValue |-> IF pr.err THEN <<>> ELSE rw.newValue,
               ret |-> pushing /\ res.ret,
               invoked |-> calling,
               pushErr |-> IF calling THEN pushErr ELSE "nil",
               links |-> IF pushing
                         THEN Len(res.headers.Link) - Len(rh[r].Link)
                         ELSE 0,
               bad |-> (IF pr.useOA THEN oaRel ELSE val) = Unparseable]]

\* One invocation of the callback by the traversal.  The collaborators are
\* asked only what the callback asks them: getRoute on the first relation of
\* a configured description, getRelation under a route, the transport when
\* the relation is new to the ledger.
ApplyRelation(r, maxRels) ==
    /\ pc[r] = "apply"
    /\ app[r].n < maxRels
    /\ LET ex == extractFromRequest(req[r])
           looks == opt.openAPI /\ ~app[r].oaRouteTested
       IN  \E val \in RelValues, n \in Nodes(ex),
              found \in IF looks THEN Routes ELSE {"nil"} :
              \E oaRel \in IF (IF looks THEN found ELSE app[r].oaRoute) = "nil"
                           THEN {<<>>} ELSE OARels,
                 transportOk \in IF val = Unparseable \/ ~n.preload
                                    \/ ctx[r] = NoPusher
                                 THEN {TRUE} ELSE BOOLEAN :
                 Callback(r, ex, val, n, found, oaRel, transportOk)
    /\ UNCHANGED <<opt, pusherMap, pc, req, ctx, ret, fin, gin, gout>>

\* The end of Apply (lines 248-272).
ApplyEnd(r) ==
    /\ pc[r] = "apply"
    /\ LET ex == extractFromRequest(req[r])
           a  == app[r]
       IN  /\ rh' = [rh EXCEPT ![r] =
                 finalHeaders(@, a.usePreloadLinks, ex.fieldsHeader, a.body)]
           /\ \E enableEarlyHints \in
                    IF a.usePreloadLinks THEN BOOLEAN ELSE {FALSE} :
                 ret' = [ret EXCEPT ![r] =
                     [done |-> TRUE, readFailed |-> FALSE,
                      earlyHints |-> earlyHints(rh[r], a.usePreloadLinks,
                                                enableEarlyHints),
                      body |-> ApplyReturn(FALSE, a.body, a.err).body,
                      err |-> ApplyReturn(FALSE, a.body, a.err).err]]
    /\ pc' = [pc EXCEPT ![r] = "applied"]
    /\ UNCHANGED <<opt, pusherMap, pushedURLs, pending, initiated, req, ctx,
                   app, last, fin, gin, gout>>

\* Finish is called (lines 275-280); it returns at once or starts to wait.
FinishCall(r) ==
    /\ pc[r] \in {"ctx", "applied"}
    /\ \E wait \in BOOLEAN :
          LET f == Finish(r, wait)
          IN  /\ fin' = [fin EXCEPT ![r] =
                    [called |-> TRUE, wait |-> wait, blocked |-> f.block,
                     calls |-> 1]]
              /\ IF f.block
                 THEN /\ pc' = [pc EXCEPT ![r] = "wait"]
                      /\ UNCHANGED <<pusherMap, pending>>
                 ELSE /\ pc' = [pc EXCEPT ![r] = "done"]
                      /\ pusherMap' = f.map
                      /\ pending' = f.pend
    /\ UNCHANGED <<opt, pushedURLs, initiated, req, ctx, app, rh, ret, last,
                   gin, gout>>

\* Finish is called again for a request it has returned for.
FinishAgain(r) ==
    /\ pc[r] = "done"
    /\ fin[r].calls < MaxFinish
    /\ \E wait \in BOOLEAN :
          LET f == Finish(r, wait)
          IN  /\ fin' = [fin EXCEPT ![r] =
                    [called |-> TRUE, wait |-> wait, blocked |-> f.block,
                     calls |-> fin[r].calls + 1]]
              /\ IF f.block
                 THEN /\ pc' = [pc EXCEPT ![r] = "wait"]
                      /\ UNCHANGED <<pusherMap, pending>>
                 ELSE /\ pc' = pc
                      /\ pusherMap' = f.map
                      /\ pending' = f.pend
    /\ UNCHANGED <<opt, pushedURLs, initiated, req, ctx, app, rh, ret, last,
                   gin, gout>>

\* A waiting Finish returns: the pushes of its handle have completed.
FinishReturn(r) ==
    /\ pc[r] = "wait"
    /\ ~Finish(r, TRUE).block
    /\ pc' = [pc EXCEPT ![r] = "done"]
    /\ pusherMap' = Finish(r, TRUE).map
    /\ pending' = Finish(r, TRUE).pend
    /\ UNCHANGED <<opt, pushedURLs, initiated, req, ctx, app, rh, ret, last,
                   fin, gin, gout>>

\* A connection: its requests run concurrently.
Next ==
    \E r \in Requests :
        \/ CreateRequestContext(r, PreloadDirectives)
        \/ CreatePushedRequestContext(r, PreloadDirectives)
        \/ ApplyStart(r)
        \/ ApplyRelation(r, ConnRels)
        \/ ApplyEnd(r)
        \/ FinishCall(r)
        \/ FinishReturn(r)

Spec == Init /\ [][Next]_vars

\* Finish returns when it can: a request's goroutine is scheduled.
FairSpec == Spec /\ \A r \in Requests : WF_vars(FinishReturn(r))

\* A connection whose host calls Finish more than once for a request.
NextFinish ==
    \E r \in Requests :
        \/ CreateRequestContext(r, PreloadDirectives)
        \/ CreatePushedRequestContext(r, PreloadDirectives)
        \/ ApplyStart(r)
        \/ ApplyRelation(r, ConnRels)
        \/ ApplyEnd(r)
        \/ FinishCall(r)
        \/ FinishReturn(r)
        \/ FinishAgain(r)

SpecFinish == Init /\ [][NextFinish]_vars

\* One exchange on its own, with every option and every directive.
First == CHOOSE r \in Requests : \A q \in Requests : r <= q

NextApply ==
    \/ CreateRequestContext(First, AnyDirectives)
    \/ ApplyStart(First)
    \/ ApplyRelation(First, MaxRels)
    \/ ApplyEnd(First)
    \/ FinishCall(First)

SpecApply == InitApply /\ [][NextApply]_vars


(***************************************************************************)
(* The pure functions on their own: the inputs are drawn by the initial    *)
(* state, one step applies the function.                                   *)
(***************************************************************************)
RECURSIVE SeqsUpTo(_, _)
\* The sequences of at most n elements of S.
SeqsUpTo(S, n) ==
    IF n = 0 THEN {<<>>}
    ELSE LET shorter == SeqsUpTo(S, n - 1)
         IN  shorter \cup {Append(q, x) : q \in shorter, x \in S}

\* The values of a directive header and of a directive query parameter;
\* their members differ, so that a list tells where it came from.
HeaderValues == {<<"/a">>, <<Malformed>>}
QueryValues == {<<"/b">>, <<Malformed>>}

InitExtract ==
    /\ NoRequests({[maxPushes |-> -1, apiUrl |-> <<>>, openAPI |-> FALSE]})
    /\ gin \in [kind : {"extract"},
                FieldsH : SeqsUpTo(HeaderValues, MaxVals),
                PreloadH : SeqsUpTo(HeaderValues, MaxVals),
                fieldsQ : SeqsUpTo(QueryValues, MaxVals),
                preloadQ : SeqsUpTo(QueryValues, MaxVals)]
    /\ gout = [kind |-> "none"]

\* extractFromRequest is applied to the request.
ExtractStep ==
    /\ gin.kind = "extract"
    /\ gout.kind = "none"
    /\ gout' = [kind |-> "extract", ex |-> extractFromRequest(gin)]
    /\ UNCHANGED <<progVars, gin>>

SpecExtract == InitExtract /\ [][ExtractStep]_vars

\* Header values of a response and of a request, as token sequences.
Statuses == {100, 199, 200, 204, 299, 300, 301, 404}
ContentTypes ==
    {Absent,
     Present(<<<<"application", "/", "json">>>>),
     Present(<<<<"application", "/", "ld", "+", "json">>>>),
     Present(<<<<"application", "/", "JSON">>>>),
     Present(<<<<"application", "/", "jsonp">>>>),
     Present(<<<<"text", "/", "html">>>>)}
CacheControls ==
    {Absent,
     Present(<<<<"no", "-", "transform">>>>),
     Present(<<<<"max", "-", "age", "=", "0", ",", "no", "-", "transform">>>>),
     Present(<<<<"no", "-", "cache">>>>)}
PreferValues ==
    {<<"selector", "=", "json", "-", "pointer">>,
     <<"selector", "=", "\"", "json", "-", "pointer", "\"">>,
     <<"selector", "=", "css">>,
     <<"return", "=", "minimal">>}

InitGate ==
    /\ NoRequests({[maxPushes |-> -1, apiUrl |-> <<>>, openAPI |-> FALSE]})
    /\ gin \in [kind : {"gate"},
                status : Statuses,
                contentType : ContentTypes,
                cacheControl : CacheControls,
                prefer : {Absent} \cup
                         {Present(v) : v \in SeqsUpTo(PreferValues, MaxVals)}]
    /\ gout = [kind |-> "none"]

\* IsValidResponse is applied to the response.
GateStep ==
    /\ gin.kind = "gate"
    /\ gout.kind = "none"
    /\ gout' = [kind |-> "gate",
                valid |-> IsValidResponse(gin.prefer, gin.status,
                                          gin.contentType, gin.cacheControl)]
    /\ UNCHANGED <<progVars, gin>>

SpecGate == InitGate /\ [][GateStep]_vars


(***************************************************************************)
(* The selector tree (node, importPointers) and its lookup, which Apply    *)
(* builds at lines 215-217 and hands to the traversal at line 223.  A node *)
(* is known by the path of segments that leads to it; the tree is the set  *)
(* of its nodes and, for each directive, the set of the nodes it selected. *)
(***************************************************************************)
MaxPaths == 2   \* the pointers of one directive list

\* The segment that matches any key or index.
Wildcard == "*"

\* JSON pointers, as text: /a/b, /a/*, /a, /*/b, /r/1.
Pointers ==
    {<<"/", "a", "/", "b">>, <<"/", "a", "/", "*">>, <<"/", "a">>,
     <<"/", "*", "/", "b">>, <<"/", "r", "/", "1">>}

\* The segments of a pointer: the text between its slashes.
pointerParts(pointer) == SelectSeq(pointer, LAMBDA t : t # "/")

\* The tree of an empty request: the root alone.
EmptyTree == [nodes |-> {<<>>}, preload |-> {}, fields |-> {}]

\* The node at the end of a path and every node on the way to it.
Prefixes(path) == {SubSeq(path, 1, k) : k \in 0..Len(path)}

RECURSIVE importPointers(_, _, _)
\* node.importPointers(t, pointers): every pointer's nodes are created where
\* missing and its last node is tagged with directive t.
importPointers(tree, t, pointers) ==
    IF pointers = <<>>
    THEN tree
    ELSE LET path == pointerParts(Head(pointers))
             tree1 == [tree EXCEPT !.nodes = @ \cup Prefixes(path),
                                   ![t] = @ \cup {path}]
         IN  importPointers(tree1, t, Tail(pointers))

\* Both lists imported under the preload tag.
ApplyTree_OneTag(p, f) ==
    importPointers(importPointers(EmptyTree, "preload", p), "preload", f)

\* Lines 215-217: the tree of an Apply, the preload list imported first.
ApplyTree(p, f) ==
    importPointers(importPointers(EmptyTree, "preload", p), "fields", f)

\* No node: the tree has no branch for the path being visited.
NoNode == [ok |-> FALSE, path |-> <<>>]

\* The root of a tree.
RootNode == [ok |-> TRUE, path |-> <<>>]

\* matchChild: the literal child first, the wildcard child when there is no
\* literal one.
matchChild(tree, node, segment) ==
    IF ~node.ok
    THEN NoNode
    ELSE IF Append(node.path, segment) \in tree.nodes
    THEN [ok |-> TRUE, path |-> Append(node.path, segment)]
    ELSE IF Append(node.path, Wildcard) \in tree.nodes
    THEN [ok |-> TRUE, path |-> Append(node.path, Wildcard)]
    ELSE NoNode

\* The directives that selected a node.
selectedBy(tree, node) ==
    {t \in {"preload", "fields"} : node.ok /\ node.path \in tree[t]}

RECURSIVE visit(_, _, _)
\* The node the traversal carries when it stands at a path of the document.
visit(tree, node, path) ==
    IF path = <<>>
    THEN node
    ELSE visit(tree, matchChild(tree, node, Head(path)), Tail(path))

\* The places of a document that are visited.
DocPaths == {<<"a">>, <<"a", "b">>, <<"a", "c">>, <<"c", "b">>, <<"r", "1">>}

InitTree ==
    /\ NoRequests({[maxPushes |-> -1, apiUrl |-> <<>>, openAPI |-> FALSE]})
    /\ gin \in [kind : {"tree"},
                preload : SeqsUpTo(Pointers, MaxPaths),
                fields : SeqsUpTo(Pointers, MaxPaths),
                at : DocPaths]
    /\ gout = [kind |-> "none"]

\* The tree is built and the traversal walks to a place of the document.
TreeStep ==
    /\ gin.kind = "tree"
    /\ gout.kind = "none"
    /\ LET tree == ApplyTree(gin.preload, gin.fields)
           n == visit(tree, RootNode, gin.at)
       IN  gout' = [kind |-> "tree", node |-> n, tags |-> selectedBy(tree, n)]
    /\ UNCHANGED <<progVars, gin>>

SpecTree == InitTree /\ [][TreeStep]_vars


(***************************************************************************)
(* The traversal (traverseJSON, called at line 223), as far as it prunes.  *)
(* A document is the set of the paths of its members: a member is known by *)
(* the keys and indices that lead to it, and keeps them when a member next *)
(* to it is omitted.                                                       *)
(***************************************************************************)
\* The members a document can have: the object a with b and c, the array r
\* with two elements, the scalar d.
DocMembers ==
    {<<"a">>, <<"a", "b">>, <<"a", "c">>, <<"r">>, <<"r", "0">>,
     <<"r", "1">>, <<"d">>}

\* The documents: a member's parent is a member, an array has no hole.
Docs ==
    {doc \in SUBSET DocMembers :
        /\ \A q \in doc : Len(q) > 1 => SubSeq(q, 1, Len(q) - 1) \in doc
        /\ <<"r", "1">> \in doc => <<"r", "0">> \in doc}

\* The members of the object or array at a path.
MembersAt(doc, path) ==
    {q \in doc : Len(q) = Len(path) + 1 /\ SubSeq(q, 1, Len(path)) = path}

\* The node has no child in the tree: what it selects is selected whole.
IsLeaf(tree, node) ==
    node.ok /\ \A q \in tree.nodes : q = node.path \/ ~(node.path \in Prefixes(q))

RECURSIVE rewriteAt(_, _, _, _, _, _)
\* The members kept below a path, the traversal carrying `node` there;
\* `known` tells that a node above selected everything below it.  A member
\* is omitted when pruning is active and neither a child node nor a known
\* node justifies it; an omitted member is not descended into.
rewriteAt(doc, tree, fieldsActive, path, node, known) ==
    UNION {LET child == matchChild(tree, node, q[Len(q)])
           IN  IF ~fieldsActive \/ child.ok \/ known
               THEN {q} \cup rewriteAt(doc, tree, fieldsActive, q, child,
                                       IF child.ok THEN IsLeaf(tree, child)
                                       ELSE known)
               ELSE {} : q \in MembersAt(doc, path)}

\* The elements of arrays renumbered from 0 once members are omitted.
Compact(doc) ==
    {IF /\ Len(q) > 1 /\ q[Len(q)] = "1"
        /\ [q EXCEPT ![Len(q)] = "0"] \notin doc
     THEN [q EXCEPT ![Len(q)] = "0"]
     ELSE q : q \in doc}

\* The traversal closing the gaps that omitted array elements leave.
traverseJSON_Compact(doc, tree, fieldsActive) ==
    Compact(rewriteAt(doc, tree, fieldsActive, <<>>, RootNode, FALSE))

\* traverseJSON(body, tree, filter, callback): the document it returns.
traverseJSON(doc, tree, fieldsActive) ==
    rewriteAt(doc, tree, fieldsActive, <<>>, RootNode, FALSE)

\* Lines 215-223: the body Apply gets from the traversal.
ApplyTraverse(body, p, f) == traverseJSON(body, ApplyTree(p, f), Len(f) > 0)

InitPrune ==
    /\ NoRequests({[maxPushes |-> -1, apiUrl |-> <<>>, openAPI |-> FALSE]})
    /\ gin \in [kind : {"prune"},
                preload : SeqsUpTo(Pointers, 1),
                fields : SeqsUpTo(Pointers, MaxPaths),
                doc : Docs]
    /\ gout = [kind |-> "none"]

\* The document is rewritten.
PruneStep ==
    /\ gin.kind = "prune"
    /\ gout.kind = "none"
    /\ gout' = [kind |-> "once",
                doc |-> ApplyTraverse(gin.doc, gin.preload, gin.fields)]
    /\ UNCHANGED <<progVars, gin>>

\* The rewritten document is rewritten again, under the same directives.
PruneAgainStep ==
    /\ gin.kind = "prune"
    /\ gout.kind = "once"
    /\ gout' = [kind |-> "twice", once |-> gout.doc,
                doc |-> ApplyTraverse(gout.doc, gin.preload, gin.fields)]
    /\ UNCHANGED <<progVars, gin>>

NextPrune == PruneStep \/ PruneAgainStep

SpecPrune == InitPrune /\ [][NextPrune]_vars


(***************************************************************************)
(* The headers of a push (lines 313-332).  A header map is a record of the *)
(* values of each key, no value meaning that the key is absent; the key    *)
(* internalRequestHeader carries the correlation identifier.               *)
(***************************************************************************)
\* The directives nested under a node: what n.httpList(preload, "") and
\* n.httpList(fields, "") return.
NestedLists == {<<>>, <<"/x">>}

\* httpsfv.Marshal: the list as one header value.
Marshal(list) == [v |-> list, err |-> FALSE]

\* Lines 313-332 without the removal of Te.
pushOptions_KeepTe(header, id, n, preloadHeader, fieldsHeader) ==
    LET h1 == [header EXCEPT !.internalRequestHeader = <<id>>,
                             !.Preload = <<>>, !.Fields = <<>>]
        h2 == IF preloadHeader /\ Len(n.preload) > 0 /\ ~Marshal(n.preload).err
              THEN [h1 EXCEPT !.Preload = <<Marshal(n.preload).v>>]
              ELSE h1
    IN  IF fieldsHeader /\ Len(n.fields) > 0 /\ ~Marshal(n.fields).err
        THEN [h2 EXCEPT !.Fields = <<Marshal(n.fields).v>>]
        ELSE h2

\* Lines 313-332: pushOptions.Header, the headers handed to pusher.Push for
\* the relation at node n by the handle `id`.
pushOptions(header, id, n, preloadHeader, fieldsHeader) ==
    LET h1 == [header EXCEPT !.internalRequestHeader = <<id>>,
                             !.Preload = <<>>, !.Fields = <<>>, !.Te = <<>>]
        h2 == IF preloadHeader /\ Len(n.preload) > 0 /\ ~Marshal(n.preload).err
              THEN [h1 EXCEPT !.Preload = <<Marshal(n.preload).v>>]
              ELSE h1
    IN  IF fieldsHeader /\ Len(n.fields) > 0 /\ ~Marshal(n.fields).err
        THEN [h2 EXCEPT !.Fields = <<Marshal(n.fields).v>>]
        ELSE h2

InitPush ==
    /\ NoRequests({[maxPushes |-> -1, apiUrl |-> <<>>, openAPI |-> FALSE]})
    /\ gin \in [kind : {"push"},
                Preload : SeqsUpTo(HeaderValues, 1),
                Fields : SeqsUpTo(HeaderValues, 1),
                Te : {<<>>, <<"trailers">>},
                Accept : {<<>>, <<"application/json">>},
                internal : BOOLEAN,
                id : Requests,
                n : [preload : NestedLists, fields : NestedLists]]
    /\ gout = [kind |-> "none"]

\* push builds the headers of the pushed request from those of the request;
\* a pushed follow-up request carries its handle's identifier already.
PushStep ==
    /\ gin.kind = "push"
    /\ gout.kind = "none"
    /\ LET ex == extractFromRequest([FieldsH |-> gin.Fields,
                                     PreloadH |-> gin.Preload,
                                     fieldsQ |-> <<>>, preloadQ |-> <<>>])
           header == [Preload |-> gin.Preload, Fields |-> gin.Fields,
                      Te |-> gin.Te, Accept |-> gin.Accept,
                      internalRequestHeader |->
                          IF gin.internal THEN <<gin.id>> ELSE <<>>]
       IN  gout' = [kind |-> "push",
                    header |-> pushOptions(header, gin.id, gin.n,
                                           ex.preloadHeader, ex.fieldsHeader)]
    /\ UNCHANGED <<progVars, gin>>

SpecPush == InitPush /\ [][PushStep]_vars


(***************************************************************************)
(* Properties.                                                             *)
(***************************************************************************)
\* The latest callback of request r handed a parsed relation to push.
Pushing(r) == last[r].called /\ last[r].preload /\ ~last[r].err

\* The Link header the latest push of request r added, if it added one.
LastLink(r) == rh[r].Link[Len(rh[r].Link)]

\* The string is an absolute URL.
IsAbsString(s) == ~urlParse(s).err /\ IsAbs(urlParse(s).u)

\* C1: on one connection, whatever the interleaving of the requests that
\* push the same relative URL, the transport push is initiated at most once
\* for that URL (and only for a URL the ledger holds); an attempt that finds
\* the URL in the ledger is answered "already pushed", which push reports as
\* success (true) without adding a Link header.
C1_PushOncePerURL ==
    /\ \A u \in DOMAIN initiated : initiated[u] <= 1 /\ u \in pushedURLs
    /\ \A r \in Requests :
          /\ last[r].invoked /\ last[r].pushErr # "already"
                => last[r].url \in DOMAIN initiated
          /\ last[r].pushErr = "already"
                => last[r].ret /\ last[r].links = 0

\* Two requests have pushed the same URL; the later one found it pushed.
C1_Witness ==
    \E r1 \in Requests, r2 \in Requests :
        /\ r1 # r2
        /\ last[r1].invoked /\ last[r1].pushErr = "nil"
        /\ last[r2].invoked /\ last[r2].pushErr = "already"
        /\ last[r1].url = last[r2].url
        /\ pc[r1] = "apply" /\ pc[r2] = "apply"

C3_FallbackLink ==
    \A r \in Requests :
        Pushing(r) /\ ~last[r].ret =>
            /\ last[r].links = 1
            /\ LastLink(r).url = opt.apiUrl \o last[r].url
            /\ LastLink(r).rel = "preload" /\ LastLink(r).as = "fetch"
            /\ LastLink(r).nopush <=> (opt.maxPushes = 0 \/ last[r].abs)

\* A push the transport refused fell back to a Link header without nopush.
C3_Witness ==
    \E r \in Requests :
        /\ Pushing(r) /\ last[r].invoked /\ last[r].pushErr = "failed"
        /\ ~LastLink(r).nopush

\* C4: the transport push is never invoked for an absolute URL, nor when
\* maxPushes is 0; push then adds a preload-hint Link header (nopush) and
\* returns false, and neither the pusher nor the ledger is touched.
C4_NoPushWhenUnavailable ==
    /\ \A u \in DOMAIN initiated \cup pushedURLs : ~IsAbsString(u)
    /\ opt.maxPushes = 0 =>
          /\ initiated = <<>> /\ pushedURLs = {}
          /\ \A h \in Requests : pending[h] = {}
    /\ \A r \in Requests :
          Pushing(r) /\ (last[r].abs \/ opt.maxPushes = 0) =>
              /\ ~last[r].invoked /\ ~last[r].ret
              /\ last[r].links = 1 /\ LastLink(r).nopush

\* An absolute relation reached push on a request that has a pusher, with
\* an unlimited budget.
C4_Witness ==
    \E r \in Requests :
        /\ Pushing(r) /\ last[r].abs
        /\ ctx[r] # NoPusher /\ opt.maxPushes = -1

\* Apply has returned a body for request r.
Applied(r) == ret[r].done /\ ~ret[r].err

\* The response headers of request r hold Vary: v.
HasVary(r, v) == \E i \in 1..Len(rh[r].Vary) : rh[r].Vary[i] = v

\* C5: after Apply has returned, the response headers hold Vary: Preload
\* whenever a relation of that Apply fell back to a preload-hint Link
\* header, wherever it stood in the document and whatever became of the
\* relations after it.
C5_VaryPreloadWhenHinted ==
    \A r \in Requests :
        Applied(r) /\ Len(rh[r].Link) > 0 => HasVary(r, "Preload")

\* The latest relation of request r was relative and reached push with a
\* pusher whose transport accepts pushes and an unlimited budget, and Apply
\* has returned.
RelativeWithPusher(r) ==
    /\ Applied(r) /\ Pushing(r) /\ ~last[r].abs
    /\ ctx[r] # NoPusher /\ opt.maxPushes = -1
    /\ last[r].pushErr # "failed"

\* C6 as stated: a relative relation the Preload directive selects, with a
\* pusher and an unlimited budget, is pushed exactly once, Vary: Preload is
\* added and no Link header is added for it.
C6_PushedWithVary ==
    \A r \in Requests :
        RelativeWithPusher(r) =>
            /\ last[r].url \in DOMAIN initiated
            /\ initiated[last[r].url] = 1
            /\ last[r].links = 0
            /\ HasVary(r, "Preload")

\* C6, amended: such a relation is pushed exactly once and gets no Link
\* header; Vary: Preload is not added for it: the response headers hold
\* none when it is the only relation Apply processed.
C6_PushedWithoutVary ==
    \A r \in Requests :
        RelativeWithPusher(r) =>
            /\ last[r].ret
            /\ last[r].url \in DOMAIN initiated
            /\ initiated[last[r].url] = 1
            /\ last[r].links = 0
            /\ app[r].n = 1 => ~HasVary(r, "Preload") /\ rh[r].Link = <<>>

\* Apply has returned after pushing the one relation of the document.
C6_Witness ==
    \E r \in Requests :
        /\ RelativeWithPusher(r) /\ last[r].pushErr = "nil"
        /\ app[r].n = 1 /\ pending[r] = {last[r].url}

\* C7 as stated: the callback returns a replacement only when the
\* directive came as a query parameter, and none whenever the Preload
\* directive came as a header, whatever the source of the other directive.
C7_HeaderLeavesValue ==
    \A r \in Requests :
        LET ex == extractFromRequest(req[r])
        IN  last[r].called =>
                /\ last[r].newValue # <<>>
                      => ex.preloadQuery \/ ex.fieldsQuery
                /\ ex.preloadHeader => last[r].newValue = <<>>

\* C7, amended: the callback returns a replacement, the URL of the
\* relation, if and only if one of the two directives came as a query
\* parameter, the relation parsed and it was not taken from the OpenAPI
\* description; so a Preload header leaves the value untouched only when
\* Fields did not come as a query parameter.
C7_QueryRewritesValue ==
    \A r \in Requests :
        LET ex == extractFromRequest(req[r])
        IN  last[r].called =>
                /\ last[r].newValue # <<>>
                      <=> /\ ex.preloadQuery \/ ex.fieldsQuery
                          /\ ~last[r].err /\ ~last[r].useOA
                /\ last[r].newValue # <<>> => last[r].newValue = last[r].url
                /\ ex.preloadHeader /\ ~ex.fieldsQuery
                      => last[r].newValue = <<>>

\* Preload came as a header, Fields as a query parameter, and the callback
\* returned a replacement.
C7_Witness ==
    \E r \in Requests :
        /\ last[r].called /\ last[r].newValue # <<>>
        /\ extractFromRequest(req[r]).preloadHeader
        /\ extractFromRequest(req[r]).fieldsQuery

\* The list of a directive owes nothing to the query parameter: it is the
\* members of the header values, or empty, and the query flag is down.
FromHeaderAlone(list, header, hflag, qflag) ==
    /\ list \in {Join(header), <<>>}
    /\ hflag <=> list = Join(header)
    /\ ~qflag

\* The list of a directive comes from one surface, never from both.
FromOneSurface(list, header, query, hflag, qflag) ==
    /\ ~(hflag /\ qflag)
    /\ hflag => list = Join(header)
    /\ qflag => list = Join(query)
    /\ ~hflag /\ ~qflag => list = <<>>

\* C8 as stated: for each directive, whenever the header is present the
\* list comes from the header alone and the query flag is false; the two
\* surfaces are never merged and at most one flag is true.
C8_HeaderPresentWins ==
    gout.kind = "extract" =>
        /\ Len(gin.FieldsH) > 0 =>
              FromHeaderAlone(gout.ex.fields, gin.FieldsH,
                              gout.ex.fieldsHeader, gout.ex.fieldsQuery)
        /\ Len(gin.PreloadH) > 0 =>
              FromHeaderAlone(gout.ex.preload, gin.PreloadH,
                              gout.ex.preloadHeader, gout.ex.preloadQuery)
        /\ FromOneSurface(gout.ex.fields, gin.FieldsH, gin.fieldsQ,
                          gout.ex.fieldsHeader, gout.ex.fieldsQuery)
        /\ FromOneSurface(gout.ex.preload, gin.PreloadH, gin.preloadQ,
                          gout.ex.preloadHeader, gout.ex.preloadQuery)

\* Every member of every value is a list member.
WellFormed(vals) ==
    \A i \in 1..Len(vals) : \A j \in 1..Len(vals[i]) : vals[i][j] # Malformed

\* C8, amended: for each directive, whenever the header is present and is a
\* well-formed list, the list comes from the header alone and the query
\* flag is false (a header that is no list counts as absent, and the query
\* parameter is then used); the two surfaces are never merged and at most
\* one flag is true.
C8_WellFormedHeaderWins ==
    gout.kind = "extract" =>
        /\ Len(gin.FieldsH) > 0 /\ WellFormed(gin.FieldsH) =>
              /\ FromHeaderAlone(gout.ex.fields, gin.FieldsH,
                                 gout.ex.fieldsHeader, gout.ex.fieldsQuery)
              /\ gout.ex.fieldsHeader
        /\ Len(gin.PreloadH) > 0 /\ WellFormed(gin.PreloadH) =>
              /\ FromHeaderAlone(gout.ex.preload, gin.PreloadH,
                                 gout.ex.preloadHeader, gout.ex.preloadQuery)
              /\ gout.ex.preloadHeader
        /\ Len(gin.FieldsH) > 0 /\ ~WellFormed(gin.FieldsH) =>
              (gout.ex.fieldsQuery
                  <=> Len(gin.fieldsQ) > 0 /\ WellFormed(gin.fieldsQ))
        /\ Len(gin.PreloadH) > 0 /\ ~WellFormed(gin.PreloadH) =>
              (gout.ex.preloadQuery
                  <=> Len(gin.preloadQ) > 0 /\ WellFormed(gin.preloadQ))
        /\ FromOneSurface(gout.ex.fields, gin.FieldsH, gin.fieldsQ,
                          gout.ex.fieldsHeader, gout.ex.fieldsQuery)
        /\ FromOneSurface(gout.ex.preload, gin.PreloadH, gin.preloadQ,
                          gout.ex.preloadHeader, gout.ex.preloadQuery)

\* Both surfaces carried a well-formed Preload list, the header in two
\* values, and the header was taken.
C8_Witness ==
    /\ gout.kind = "extract"
    /\ Len(gin.PreloadH) > 1 /\ WellFormed(gin.PreloadH)
    /\ Len(gin.preloadQ) > 0 /\ WellFormed(gin.preloadQ)
    /\ gout.ex.preloadHeader

\* C9: Apply returns an error if and only if reading the body failed, and
\* then before any effect: no response header is set and no relation was
\* handed to the callback or pushed.  Otherwise (malformed directives,
\* unparseable relations, failed pushes) it returns a body, with one value
\* for each relation visited, and no error.
C9_ErrorIffReadFailed ==
    \A r \in Requests :
        ret[r].done =>
            /\ ret[r].err <=> ret[r].readFailed
            /\ ret[r].readFailed =>
                  /\ rh[r] = NoHeaders /\ ~last[r].called
                  /\ app[r] = NoApp /\ ret[r].body = <<>>
                  /\ ret[r].earlyHints = <<>>
            /\ ~ret[r].readFailed => Len(ret[r].body) = app[r].n

\* Apply has returned a body although its last relation did not parse.
C9_Witness ==
    \E r \in Requests :
        Applied(r) /\ last[r].called /\ last[r].err /\ app[r].err

\* C10: IsValidResponse is true if and only if the status is in 200..299,
\* the Content-Type denotes JSON, Cache-Control holds no no-transform, and
\* the request has no Prefer header or one of its values selects
\* json-pointer.
C10_ValidIff2xxJSON ==
    gout.kind = "gate" =>
        (gout.valid <=>
            /\ gin.status >= 200 /\ gin.status <= 299
            /\ jsonRe(HeaderGet(gin.contentType.vals))
            /\ ~notransformRe(HeaderGet(gin.cacheControl.vals))
            /\ \/ ~gin.prefer.ok
               \/ \E i \in 1..Len(gin.prefer.vals) :
                     preferRe(gin.prefer.vals[i]))

\* The number of values v among the Vary headers of request r.
VaryCount(r, v) == Cardinality({i \in 1..Len(rh[r].Vary) : rh[r].Vary[i] = v})

\* The request r carries a Fields header that is a structured list.
FieldsFromHeader(r) == Len(req[r].FieldsH) > 0 /\ WellFormed(req[r].FieldsH)

\* C11: after Apply has returned without error, the response headers hold
\* Vary: Fields, once, if and only if the fields directive came as the
\* Fields header: not when it came as the query parameter (the header being
\* absent or no list), and not when no fields directive was parsed.
C11_VaryFieldsIffHeader ==
    \A r \in Requests :
        Applied(r) =>
            /\ HasVary(r, "Fields") <=> FieldsFromHeader(r)
            /\ VaryCount(r, "Fields") <= 1
            /\ HasVary(r, "Fields") => rh[r].ContentLength = <<Len(ret[r].body)>>

\* Apply has returned with Vary: Fields and without Vary: Preload, for a
\* request whose Fields header was taken and whose Preload came as a query
\* parameter.
C11_Witness ==
    \E r \in Requests :
        /\ Applied(r) /\ HasVary(r, "Fields") /\ ~HasVary(r, "Preload")
        /\ FieldsFromHeader(r) /\ Len(req[r].preloadQ) > 0
        /\ app[r].n > 0


\* The pointers of a directive list, as paths of segments.
ListPaths(list) == {pointerParts(list[i]) : i \in 1..Len(list)}

\* The directives whose list holds the path itself.
LiteralTags(path) ==
    {t \in {"preload", "fields"} : path \in ListPaths(gin[t])}

\* C12: in the tree merged from the preload and the fields list, a place of
\* the document that a list names literally is matched by its literal node
\* and reported with that node's tags, never with those of a wildcard node
\* at the same depth; a wildcard node is reported only where the tree has no
\* literal child for the segment visited.
C12_LiteralBeforeWildcard ==
    gout.kind = "tree" =>
        /\ LiteralTags(gin.at) # {} =>
              /\ gout.node = [ok |-> TRUE, path |-> gin.at]
              /\ gout.tags = LiteralTags(gin.at)
        /\ gout.node.ok =>
              \A k \in 1..Len(gin.at) :
                  gout.node.path[k] = Wildcard =>
                      \A l \in ListPaths(gin.preload) \cup ListPaths(gin.fields) :
                          ~(/\ Len(l) >= k
                            /\ SubSeq(l, 1, k - 1) = SubSeq(gout.node.path, 1, k - 1)
                            /\ l[k] = gin.at[k])

\* /a/b is selected by fields, /a/* by preload, and the visit of /a/b
\* reported the fields tag alone.
C12_Witness ==
    /\ gout.kind = "tree"
    /\ gin.at = <<"a", "b">>
    /\ <<"a", "b">> \in ListPaths(gin.fields)
    /\ <<"a", Wildcard>> \in ListPaths(gin.preload)
    /\ <<"a", "b">> \notin ListPaths(gin.preload)
    /\ gout.tags = {"fields"}


Finished(r) == pc[r] = "done" /\ fin[r].calls >= 1

\* A step is a later call of Finish for request r, or the return of one.
LaterFinishOf(r) ==
    \/ Finished(r) /\ fin'[r].calls > fin[r].calls
    \/ pc[r] = "wait" /\ fin[r].calls > 1 /\ pc'[r] = "done"

\* C14: once Finish has returned for a request, the handle that
\* CreateRequestContext registered for it is not in the pusher map, whether
\* the request pushed, was never handed to Apply, or left pushes in flight
\* (wait = false); a later call of Finish for it changes neither the pusher
\* map, nor the pushes in flight, nor the ledger.
C14_FinishIdempotent ==
    /\ [](\A r \in Requests : Finished(r) => r \notin pusherMap)
    /\ [][\A r \in Requests :
            LaterFinishOf(r) =>
                /\ pusherMap' = pusherMap /\ pending' = pending
                /\ pushedURLs' = pushedURLs /\ initiated' = initiated]_vars

\* Finish was called twice for an originating request that left a push in
\* flight, and for a request that was never handed to Apply.
C14_Witness ==
    \E r1 \in Requests, r2 \in Requests :
        /\ pc[r1] = "done" /\ fin[r1].calls = 2 /\ ctx[r1] = r1
        /\ pending[r1] # {} /\ ~fin[r1].wait
        /\ pc[r2] = "done" /\ fin[r2].calls = 2 /\ ctx[r2] = r2
        /\ ~ret[r2].done


\* C15: a relation whose text is no URL is skipped on its own: the callback
\* returns no replacement, push is not entered, no Link header is added and
\* neither the ledger, the pushes in flight nor usePreloadLinks change, and
\* the traversal goes on: the relations around it are resolved, pushed or
\* hinted from the state they would have met without it.
C15_BadRelationSkipped ==
    /\ [](\A r \in Requests :
            last[r].called /\ last[r].bad =>
                /\ last[r].err /\ last[r].newValue = <<>>
                /\ ~last[r].invoked /\ ~last[r].ret /\ last[r].links = 0
                /\ ~app[r].body[app[r].n])
    /\ [][\A r \in Requests :
            app'[r].n = app[r].n + 1 /\ last'[r].bad =>
                /\ rh' = rh /\ pushedURLs' = pushedURLs
                /\ initiated' = initiated /\ pending' = pending
                /\ app'[r].usePreloadLinks = app[r].usePreloadLinks
                /\ app'[r].body = Append(app[r].body, FALSE)
                /\ pc'[r] = "apply"]_vars

\* After a relation that is no URL, the next relation of the document was
\* pushed.
C15_Witness ==
    \E r \in Requests :
        /\ app[r].n = 2 /\ ~app[r].body[1] /\ rh[r].Link = <<>>
        /\ Pushing(r) /\ last[r].invoked /\ last[r].pushErr = "nil"
        /\ Len(req[r].preloadQ) > 0 /\ app[r].body[2]
        /\ ~app[r].oaRouteTested \/ app[r].oaRoute = "nil"


\* The headers a push forwards beside the directives: the correlation
\* identifier of the handle, no Te, the other headers as the request had
\* them.
ForwardedBesideDirectives ==
    /\ gout.header.internalRequestHeader = <<gin.id>>
    /\ gout.header.Te = <<>>
    /\ gout.header.Accept = gin.Accept

\* C16 as stated: the headers of a push carry the correlation identifier
\* and hold neither a Preload, nor a Fields, nor a Te header.
C16_NoDirectiveForwarded ==
    gout.kind = "push" =>
        /\ ForwardedBesideDirectives
        /\ gout.header.Preload = <<>>
        /\ gout.header.Fields = <<>>

\* C16, amended: the headers of a push carry the correlation identifier,
\* and no Te header, and the Preload and Fields headers of the request are
\* removed; a Preload (Fields) header is forwarded exactly when the directive
\* came as the Preload (Fields) header and directives of that kind are
\* nested under the relation's node, and it then holds that nested list.
C16_NestedDirectivesForwarded ==
    gout.kind = "push" =>
        /\ ForwardedBesideDirectives
        /\ gout.header.Preload =
              IF /\ Len(gin.Preload) > 0 /\ WellFormed(gin.Preload)
                 /\ Len(gin.n.preload) > 0
              THEN <<gin.n.preload>> ELSE <<>>
        /\ gout.header.Fields =
              IF /\ Len(gin.Fields) > 0 /\ WellFormed(gin.Fields)
                 /\ Len(gin.n.fields) > 0
              THEN <<gin.n.fields>> ELSE <<>>

\* A request with Te and a Preload header, whose relation has preload
\* directives nested under its node, was pushed with the nested list.
C16_Witness ==
    /\ gout.kind = "push"
    /\ gin.Te # <<>> /\ gin.Preload # <<>> /\ gin.Fields = <<>>
    /\ gout.header.Preload = <<gin.n.preload>> /\ gin.n.preload # <<>>
    /\ gin.n.fields # <<>> /\ gout.header.Fields = <<>>


\* C17: within one Apply, openAPI.getRoute is called at most once: by the
\* callback of the first relation when a description is configured, never
\* otherwise; what it answered, a route or none, is the route of every
\* later relation of that response.
C17_RouteLookedUpOnce ==
    /\ [](\A r \in Requests :
            /\ app[r].lookups <= 1
            /\ app[r].lookups = 1 <=> opt.openAPI /\ app[r].n >= 1
            /\ ~opt.openAPI => app[r].oaRoute = "nil")
    /\ [][\A r \in Requests :
            app[r].n >= 1 /\ app'[r].n = app[r].n + 1 =>
                /\ app'[r].oaRoute = app[r].oaRoute
                /\ app'[r].lookups = app[r].lookups]_vars

\* The second relation of a document was resolved through the route the
\* first one had looked up.
C17_Witness ==
    \E r \in Requests :
        /\ app[r].n = 2 /\ app[r].lookups = 1 /\ app[r].oaRoute = "route"
        /\ last[r].called /\ last[r].useOA

\* C18: every call of push ends in one of two ways: it returns true and
\* leaves the Link headers as they were (the relation was pushed, or had
\* been pushed already), or it returns false and has added exactly one Link
\* preload header, for the URL of the relation; a callback that does not
\* reach push adds no Link header.
C18_PushedOrHinted ==
    \A r \in Requests :
        last[r].called =>
            IF Pushing(r)
            THEN \/ /\ last[r].ret /\ last[r].links = 0
                    /\ last[r].invoked /\ last[r].pushErr \in {"nil", "already"}
                 \/ /\ ~last[r].ret /\ last[r].links = 1
                    /\ LastLink(r).url = opt.apiUrl \o last[r].url
                    /\ LastLink(r).rel = "preload"
            ELSE ~last[r].ret /\ last[r].links = 0

\* The second relation of a document named the URL of the first, which had
\* been pushed: push returned true and added no Link header.
C18_Witness ==
    \E r \in Requests :
        /\ app[r].n = 2 /\ Pushing(r)
        /\ last[r].pushErr = "already" /\ last[r].ret /\ last[r].links = 0

============================================================================
